---- MODULE Spec2Model ----
(***************************************************************************)
(* Session loop of app.py (Streamlit chat front-end).                      *)
(*                                                                         *)
(* Streamlit re-executes the whole script on every widget interaction, so  *)
(* every action below is one script run (or, for a submitted prompt, one   *)
(* position inside the run: the request is issued, the stream is consumed  *)
(* fragment by fragment, the turn is closed).                              *)
(*                                                                         *)
(* Text is a sequence of tokens; "+" on Python strings is \o, so the       *)
(* accumulator and the export are computed, not assumed.                   *)
(***************************************************************************)
EXTENDS Integers, Sequences, FiniteSets, TLC

\* ---------------------------------------------------------------- bounds
MaxTurns       == 2      \* submissions since the last clear, Spec
MaxChunks      == 2      \* chunks one stream delivers
MaxWindowTurns == 13     \* submissions since the last clear, SpecWindow

\* ------------------------------------------------------ program constants
N == 20                  \* app.py:104

\* character_prompts (app.py:38-48): persona key -> instruction text.  The
\* keys and texts are Korean in the source; they are abbreviated here.
character_prompts ==
    [ friendly_mentor |-> <<"You are a friendly, warm dev mentor ...">>,
      nineties_vibe   |-> <<"You are a witty friend with a 90s vibe ...">>,
      calm_librarian  |-> <<"You are a calm, trustworthy librarian ...">> ]

\* list(character_prompts.keys()) (app.py:67), in insertion order
CharacterKeys == <<"friendly_mentor", "nineties_vibe", "calm_librarian">>

Characters == { CharacterKeys[i] : i \in 1..Len(CharacterKeys) }

\* st.selectbox(..., index=0) (app.py:66-68): the option a fresh widget shows
DefaultCharacter == CharacterKeys[1]

\* ----------------------------------------------------------- input sets
\* what st.chat_input returns when a message is submitted: non-empty text
Prompts == { <<"q">>, <<"r", "\n\n", "s">> }
\* in SpecWindow the user numbers the prompts, so that every entry of a long
\* history differs from its neighbours: the k-th prompt since the last clear
WindowPrompts(k) == { <<"prompt", ToString(k)>> }

\* chunk.choices[0].delta.content: None, "" or a piece of text
NoContent     == [has |-> FALSE, text |-> << >>]
Content(text) == [has |-> TRUE, text |-> text]
Deltas        == { NoContent, Content(<< >>), Content(<<"a">>),
                   Content(<<"b", "\n\n">>) }
WindowDeltas  == { NoContent }

\* the exceptions the completion call raises: (type(e).__name__, str(e))
Errors == { <<"APIConnectionError", "Connection error.">> }

\* ------------------------------------------------------------- messages
UserMessage(prompt)    == [role |-> "user", content |-> prompt]
AssistantMessage(text) == [role |-> "assistant", content |-> text]
SystemMessage(text)    == [role |-> "system", content |-> text]

\* a plausible bug: the persona instruction seeded into the stored history
SeededHistory == << SystemMessage(character_prompts[DefaultCharacter]) >>

\* the fresh history of app.py:78 and app.py:85
EmptyHistory == << >>

Min(a, b) == IF a < b THEN a ELSE b
Max(a, b) == IF a > b THEN a ELSE b

\* Python's s[-n:] for n > 0: from index max(len(s) - n, 0) to the end
LastWindow(s, n) == SubSeq(s, Max(Len(s) - n, 0) + 1, Len(s))

\* a plausible bug: s[:n], the oldest n entries
HistoryWindowOldest(msgs) == SubSeq(msgs, 1, Min(N, Len(msgs)))

\* history = st.session_state.messages[-N:]
HistoryWindow(msgs) == LastWindow(msgs, N)

\* a plausible bug: the instruction of the default persona, whatever is stored
BuildRequestDefaultPersona(msgs, char) ==
    << SystemMessage(character_prompts[DefaultCharacter]) >> \o HistoryWindow(msgs)

\* messages=[{"role": "system", "content": system_prompt}] + history
BuildRequest(msgs, char) ==
    << SystemMessage(character_prompts[char]) >> \o HistoryWindow(msgs)

\* `delta and getattr(delta, "content", None)`: None and "" are falsy
HasContent(d) == d.has /\ d.text # << >>

\* a plausible bug: the fragment put in front of the accumulator
AccumulateInFront(text, d) == d.text \o text

\* full_text += delta.content
Accumulate(text, d) == text \o d.text

\* --------------------------------------------------------------- display
NoPlaceholder    == [kind |-> "none",     text |-> << >>]
EmptyPlaceholder == [kind |-> "empty",    text |-> << >>]
Markdown(text)   == [kind |-> "markdown", text |-> text]
\* placeholder.error(f"오류: {type(e).__name__} — {e}")
ErrorBox(e)      == [kind |-> "error", text |-> <<"error: ", e[1], " -- ", e[2]>>]

\* ---------------------------------------------------------------- export
BlankLine == <<"\n\n">>

\* f"**{m['role']}**: {m['content']}"
ExportEntry(m) == <<"**", m.role, "**: ">> \o m.content

RECURSIVE Join(_, _)
\* sep.join(parts)
Join(sep, parts) ==
    IF parts = << >> THEN << >>
    ELSE IF Len(parts) = 1 THEN parts[1]
    ELSE parts[1] \o sep \o Join(sep, Tail(parts))

\* a plausible bug: "\n".join(...) written as plain concatenation
ExportDataNoSeparator(msgs) ==
    Join(<< >>, [i \in 1..Len(msgs) |-> ExportEntry(msgs[i])])

\* "\n\n".join([f"**{m['role']}**: {m['content']}" for m in messages])
ExportData(msgs) ==
    Join(BlankLine, [i \in 1..Len(msgs) |-> ExportEntry(msgs[i])])

\* the file chat_history.md a click on the download button delivers
NoExport       == [done |-> FALSE, data |-> << >>]
Download(data) == [done |-> TRUE, data |-> data]

NoRequest == << >>

\* ----------------------------------------------------------------- state
VARIABLES
    messages,            \* st.session_state.messages
    character,           \* st.session_state.character
    selected_character,  \* value of the persona selectbox
    pc,                  \* "idle" | "create" | "stream": position in the run
    full_text,           \* the accumulator of the running turn
    placeholder,         \* what the assistant placeholder shows
    request,             \* messages= of the completion call in flight
    exported,            \* data of the download this run delivered
    \* history variables (not program state)
    lastOp,              \* the step taken last
    received,            \* delta contents the running stream has delivered
    okTurns,             \* turns since the last clear whose stream ended
    log,                 \* the Messages appended since the last clear
    discarded,           \* number of Messages the last clear removed
    preLen               \* len(messages) before the latest turn of this history

vars == << messages, character, selected_character, pc, full_text, placeholder,
           request, exported, lastOp, received, okTurns, log, discarded,
           preLen >>

\* the first script run of a session: the selectbox shows index 0, both
\* session keys are missing and are created (app.py:77-80)
Init ==
    /\ messages = EmptyHistory
    /\ character = DefaultCharacter
    /\ selected_character = DefaultCharacter
    /\ pc = "idle"
    /\ full_text = << >>
    /\ placeholder = NoPlaceholder
    /\ request = NoRequest
    /\ exported = NoExport
    /\ lastOp = "start"
    /\ received = << >>
    /\ okTurns = 0
    /\ log = << >>
    /\ discarded = 0
    /\ preLen = 0

\* ------------------------------------------- app.py:82-85, on every run
\* a plausible bug: the history is cleared but the new persona is not stored
CharacterAfterCheckStale(char, sel) == char

CharacterAfterCheck(char, sel) == IF char # sel THEN sel ELSE char

\* a plausible bug: the persona is stored but the history is kept
MessagesAfterCheckKept(msgs, char, sel) == msgs

MessagesAfterCheck(msgs, char, sel) == IF char # sel THEN EmptyHistory ELSE msgs

\* ------------------------------------------------------------ the actions
\* The persona selectbox is changed: the script runs with the new value and
\* no prompt (app.py:66-68, 76-85).
SelectCharacter(c) ==
    /\ pc = "idle"
    /\ c # selected_character
    /\ selected_character' = c
    /\ character' = CharacterAfterCheck(character, c)
    /\ messages' = MessagesAfterCheck(messages, character, c)
    /\ placeholder' = NoPlaceholder
    /\ exported' = NoExport
    /\ lastOp' = "select"
    /\ okTurns' = IF character # c THEN 0 ELSE okTurns
    /\ log' = IF character # c THEN << >> ELSE log
    /\ discarded' = IF character # c THEN Len(messages) ELSE 0
    /\ preLen' = IF character # c THEN 0 ELSE preLen
    /\ UNCHANGED << pc, full_text, request, received >>

\* a plausible bug: the button reruns the script without clearing the session
ResetWithoutClear ==
    /\ pc = "idle"
    /\ character' = CharacterAfterCheck(character, selected_character)
    /\ messages' = MessagesAfterCheck(messages, character, selected_character)
    /\ placeholder' = NoPlaceholder
    /\ exported' = NoExport
    /\ lastOp' = "reset"
    /\ discarded' = 0
    /\ UNCHANGED << selected_character, pc, full_text, request, received,
                    okTurns, log, preLen >>

\* The reset button: st.session_state.clear() drops both session keys and
\* st.rerun() runs the script again, which creates them anew from the value
\* the selectbox returns (app.py:72-74, then 66-68 and 76-85).  The selectbox
\* has no key, so it is no entry of st.session_state: the framework either
\* keeps the value the user picked or shows the widget afresh at index 0.
Reset ==
    /\ pc = "idle"
    /\ \E sel \in {selected_character, DefaultCharacter} :
          /\ selected_character' = sel
          /\ character' = CharacterAfterCheck(sel, sel)
          /\ messages' = MessagesAfterCheck(EmptyHistory, sel, sel)
    /\ placeholder' = NoPlaceholder
    /\ exported' = NoExport
    /\ lastOp' = "reset"
    /\ okTurns' = 0
    /\ log' = << >>
    /\ discarded' = Len(messages)
    /\ preLen' = 0
    /\ UNCHANGED << pc, full_text, request, received >>

\* a plausible bug: the window is taken by trimming the stored history,
\* st.session_state.messages = st.session_state.messages[-N:]
SubmitTrimsHistory(prompt) ==
    /\ pc = "idle"
    /\ LET char == CharacterAfterCheck(character, selected_character)
           msgs == Append(MessagesAfterCheck(messages, character, selected_character),
                          UserMessage(prompt))
       IN  /\ character' = char
           /\ messages' = HistoryWindow(msgs)
           /\ request' = BuildRequest(HistoryWindow(msgs), char)
    /\ full_text' = << >>
    /\ placeholder' = EmptyPlaceholder
    /\ exported' = NoExport
    /\ pc' = "create"
    /\ lastOp' = "submit"
    /\ received' = << >>
    /\ log' = Append(log, UserMessage(prompt))
    /\ discarded' = 0
    /\ preLen' = Len(messages)
    /\ UNCHANGED << selected_character, okTurns >>

\* A prompt is submitted: the run appends the user Message, creates the
\* placeholder and the accumulator, builds the message list and issues the
\* completion call (app.py:76-85, 93-114).
Submit(prompt) ==
    /\ pc = "idle"
    /\ LET char == CharacterAfterCheck(character, selected_character)
           msgs == Append(MessagesAfterCheck(messages, character, selected_character),
                          UserMessage(prompt))
       IN  /\ character' = char
           /\ messages' = msgs
           /\ request' = BuildRequest(msgs, char)
    /\ full_text' = << >>
    /\ placeholder' = EmptyPlaceholder
    /\ exported' = NoExport
    /\ pc' = "create"
    /\ lastOp' = "submit"
    /\ received' = << >>
    /\ log' = Append(log, UserMessage(prompt))
    /\ discarded' = 0
    /\ preLen' = Len(messages)
    /\ UNCHANGED << selected_character, okTurns >>

\* app.py:122-125: what the placeholder shows last, and the statement after
\* the try, which appends the assistant Message on every path; the run ends
\* and its local full_text with it
CloseTurn(box) ==
    /\ placeholder' = box
    /\ messages' = Append(messages, AssistantMessage(full_text))
    /\ full_text' = << >>
    /\ request' = NoRequest
    /\ pc' = "idle"
    /\ received' = << >>
    /\ log' = Append(log, AssistantMessage(full_text))
    /\ UNCHANGED << character, selected_character, exported, discarded, preLen >>

\* client.chat.completions.create raises (app.py:108-114, 122-125)
CreateRaises(e) ==
    /\ pc = "create"
    /\ CloseTurn(ErrorBox(e))
    /\ lastOp' = "create_raised"
    /\ UNCHANGED okTurns

\* client.chat.completions.create returns the stream (app.py:108-114)
CreateReturns ==
    /\ pc = "create"
    /\ pc' = "stream"
    /\ lastOp' = "create_returned"
    /\ UNCHANGED << messages, character, selected_character, full_text,
                    placeholder, request, exported, received, okTurns,
                    log, discarded, preLen >>

\* one iteration of `for chunk in stream` (app.py:116-120)
Chunk(d) ==
    /\ pc = "stream"
    /\ Len(received) < MaxChunks
    /\ received' = Append(received, d)
    /\ IF HasContent(d)
       THEN /\ full_text' = Accumulate(full_text, d)
            /\ placeholder' = Markdown(full_text')
            /\ lastOp' = "fragment"
       ELSE /\ UNCHANGED << full_text, placeholder >>
            /\ lastOp' = "empty_chunk"
    /\ UNCHANGED << messages, character, selected_character, pc, request,
                    exported, okTurns, log, discarded, preLen >>

\* the stream is exhausted (app.py:116, 125)
StreamEnds ==
    /\ pc = "stream"
    /\ CloseTurn(placeholder)
    /\ lastOp' = "stream_ended"
    /\ okTurns' = okTurns + 1

\* the stream raises while it is consumed (app.py:116, 122-125)
StreamRaises(e) ==
    /\ pc = "stream"
    /\ CloseTurn(ErrorBox(e))
    /\ lastOp' = "stream_raised"
    /\ UNCHANGED okTurns

\* The download button is clicked: it is rendered only for a non-empty
\* history, and the click delivers its data and runs the script with no
\* prompt (app.py:76-85, 134-144).
Export ==
    /\ pc = "idle"
    /\ messages # << >>
    /\ character' = CharacterAfterCheck(character, selected_character)
    /\ messages' = MessagesAfterCheck(messages, character, selected_character)
    /\ exported' = Download(ExportData(messages))
    /\ placeholder' = NoPlaceholder
    /\ lastOp' = "export"
    /\ discarded' = 0
    /\ UNCHANGED << selected_character, pc, full_text, request, received,
                    okTurns, log, preLen >>

TurnsLeft(max) == Len(log) < 2 * max

Next ==
    \/ \E c \in Characters : SelectCharacter(c)
    \/ Reset
    \/ TurnsLeft(MaxTurns) /\ \E p \in Prompts : Submit(p)
    \/ \E e \in Errors : CreateRaises(e)
    \/ CreateReturns
    \/ \E d \in Deltas : Chunk(d)
    \/ StreamEnds
    \/ \E e \in Errors : StreamRaises(e)
    \/ Export

Spec == Init /\ [][Next]_vars

\* the same program with histories longer than the window of N entries and
\* little variety of content
NextWindow ==
    \/ \E c \in Characters : SelectCharacter(c)
    \/ Reset
    \/ TurnsLeft(MaxWindowTurns)
         /\ \E p \in WindowPrompts(Len(log) \div 2 + 1) : Submit(p)
    \/ \E e \in Errors : CreateRaises(e)
    \/ CreateReturns
    \/ \E d \in WindowDeltas : Chunk(d)
    \/ StreamEnds
    \/ \E e \in Errors : StreamRaises(e)
    \/ Export

SpecWindow == Init /\ [][NextWindow]_vars

\* ----------------------------------------------------------------- claims
InTurn == pc \in {"create", "stream"}
Failed == lastOp \in {"create_raised", "stream_raised"}

\* C1: if the completion call fails, when it is issued or while the stream is
\* consumed, no assistant Message is appended for that turn and the history
\* is as long as it was before the failed turn.
C1_FailedTurnCommitsNothing ==
    Failed =>
        /\ Len(messages) = preLen
        /\ \A i \in (preLen + 1)..Len(messages) : messages[i].role # "assistant"

\* C2: with no reset or persona switch in between, after k turns whose stream
\* ended without failure the history has exactly 2k entries, users at the
\* even 0-based indices and assistants at the odd ones.
C2_TwoMessagesPerSuccessfulTurn ==
    pc = "idle" =>
        /\ Len(messages) = 2 * okTurns
        /\ \A i \in 1..Len(messages) :
              messages[i].role = IF i % 2 = 1 THEN "user" ELSE "assistant"

\* the request carries only entries of the stored history, in its order
RequestFromHistory ==
    request # NoRequest =>
        /\ Len(request) - 1 <= Len(messages)
        /\ \A i \in 2..Len(request) :
              request[i] = messages[Len(messages) - Len(request) + i]

\* C3: a persona switch (selected persona differs from the stored one) leaves
\* the history empty and the stored persona equal to the selected one, and
\* nothing from before the switch is sent or exported afterwards: history,
\* request and export hold only Messages appended since the last clear.
C3_SwitchClearsHistory ==
    /\ [][ (lastOp' = "select" /\ character # selected_character')
             => (messages' = << >> /\ character' = selected_character') ]_vars
    /\ [](/\ messages = log
          /\ RequestFromHistory
          /\ (exported.done => exported.data = ExportData(log)))

C3_Witness ==
    lastOp = "select" /\ discarded >= 2 /\ messages = << >>
        /\ character # DefaultCharacter

\* C4: the message list of every completion request is one system entry
\* followed by the last min(N, len(history)) entries of the history in their
\* order: at most N + 1 entries, no second system entry.
C4_RequestIsSystemThenLastN ==
    InTurn =>
        LET m == Min(N, Len(messages)) IN
        /\ Len(request) = m + 1
        /\ Len(request) <= N + 1
        /\ request[1].role = "system"
        /\ \A i \in 1..m :
              /\ request[i + 1] = messages[Len(messages) - m + i]
              /\ request[i + 1].role # "system"

C4_Witness == pc = "create" /\ Len(messages) > N /\ Len(request) = N + 1

\* C5 as claimed: after a reset the history is empty and the stored persona
\* is the default (first) persona.
C5_ResetRevertsToDefault ==
    lastOp = "reset" => (messages = << >> /\ character = DefaultCharacter)

\* C5 as amended: after a reset the history is empty and the stored persona
\* is the persona the selector shows, which need not be the default.
C5_ResetClearsHistory ==
    lastOp = "reset" => (messages = << >> /\ character = selected_character)

C5_Witness ==
    lastOp = "reset" /\ discarded >= 2 /\ character # DefaultCharacter

\* C6: the stored history never holds a system-role Message.
C6_NoSystemInHistory ==
    \A i \in 1..Len(messages) : messages[i].role # "system"

C6_Witness ==
    pc = "stream" /\ request[1].role = "system" /\ Len(messages) >= 3

\* C7: building the request takes nothing out of the stored history: the
\* history is every Message appended since the last clear, also when it is
\* longer than the window that was sent.
C7_HistoryKeepsEverything ==
    /\ messages = log
    /\ (InTurn => Len(messages) = preLen + 1)

C7_Witness ==
    pc = "stream" /\ Len(messages) > N /\ Len(request) - 1 < Len(messages)

RECURSIVE EntryStart(_, _)
\* where the entry of msgs[i] starts in the export: after the i - 1 entries
\* before it, each a label of three tokens, its content and one blank line
EntryStart(msgs, i) ==
    IF i = 1 THEN 1
    ELSE EntryStart(msgs, i - 1) + 3 + Len(msgs[i - 1].content) + 1

ExportShape(data, msgs) ==
    LET n == Len(msgs) IN
    /\ Len(data) = EntryStart(msgs, n) + 2 + Len(msgs[n].content)
    /\ \A i \in 1..n :
          LET at == EntryStart(msgs, i)
              k  == Len(msgs[i].content)
          IN  /\ SubSeq(data, at, at + 2) = <<"**", msgs[i].role, "**: ">>
              /\ SubSeq(data, at + 3, at + 2 + k) = msgs[i].content
              /\ (i < n => data[at + 3 + k] = "\n\n")

\* C8: an export happens only for a non-empty history, holds one role-labeled
\* entry per stored Message in history order with a blank line between
\* neighbours, and leaves history and persona as they were.
C8_ExportOneEntryPerMessage ==
    /\ [][ lastOp' = "export"
             => (messages # << >> /\ messages' = messages
                 /\ character' = character) ]_vars
    /\ [](exported.done => (messages # << >> /\ ExportShape(exported.data, messages)))

C8_Witness ==
    exported.done /\ Len(messages) >= 4
        /\ \E i \in 1..Len(messages) : Len(messages[i].content) >= 3

\* C9: when a request is built the stored persona is the selected one and the
\* system entry carries that persona's instruction and no other persona's.
C9_RequestUsesSelectedPersona ==
    InTurn =>
        /\ character = selected_character
        /\ request[1] = SystemMessage(character_prompts[selected_character])
        /\ \A c \in Characters \ {selected_character} :
              request[1].content # character_prompts[c]

C9_Witness ==
    pc = "create" /\ selected_character # DefaultCharacter
        /\ Len(messages) = 1 /\ okTurns = 0

RECURSIVE Concatenation(_)
\* the non-empty fragments of a stream, concatenated in arrival order
Concatenation(ds) ==
    IF ds = << >> THEN << >>
    ELSE (IF HasContent(Head(ds)) THEN Head(ds).text ELSE << >>)
         \o Concatenation(Tail(ds))

\* C10: each turn starts from the empty accumulator; after every non-empty
\* fragment the placeholder shows the concatenation of the non-empty
\* fragments received so far; when the stream ends, exactly one Message is
\* appended after the user's, the assistant's, with that concatenation.
C10_DisplayAndCommitConcatenation ==
    /\ [](lastOp = "submit" => full_text = << >>)
    /\ [](lastOp = "fragment" => placeholder = Markdown(Concatenation(received)))
    /\ [][ lastOp' = "stream_ended"
             => /\ messages' = Append(messages, AssistantMessage(Concatenation(received)))
                /\ Len(messages') = preLen + 2
                /\ messages'[preLen + 1].role = "user" ]_vars

C10_Witness ==
    /\ lastOp = "stream_ended"
    /\ messages[Len(messages)].role = "assistant"
    /\ Len(messages[Len(messages)].content) = 3

====
